---------------------------- MODULE Spec2Model ----------------------------
(***************************************************************************)
(* The H2 1s density notebook (src/h2_1s_density.ipynb) as a state         *)
(* machine: the module global alpha, the FloatSlider that interact binds   *)
(* to plot_func, and the figure plot_func last drew.                       *)
(*                                                                         *)
(* Numbers.  Python floats are modelled as fixed-point integers:           *)
(*   - a real v is the integer floor(v * Scale), Scale = 10^6;             *)
(*   - alpha is held in hundredths (1.24 is 124), the slider in tenths     *)
(*     (its step is 0.1, so 0..3 is 0..30);                                *)
(*   - a coordinate is held in grid units of 1/Unit, Unit = 20*(num-1),    *)
(*     in which every linspace(-2, 2, 100) sample and every R/2 of the     *)
(*     slider is a whole number.                                           *)
(* math.exp / np.exp, np.sqrt, * and / are computed (a table of exp at     *)
(* multiples of 0.001 times a short series, Newton iteration, long         *)
(* multiplication and division), each rounding down to the fixed-point     *)
(* grid as the float operations round to theirs.  exp is                   *)
(* modelled for arguments <= 0 only: with alpha >= 0 and R >= 0 the code   *)
(* never passes it anything else.                                          *)
(***************************************************************************)
EXTENDS Integers, Sequences, FiniteSets, TLC

VARIABLES alpha,    \* the module global alpha, in hundredths
          slider,   \* the FloatSlider's value R, in tenths
          calls,    \* how many times plot_func has run
          shown,    \* what the last plot_func call computed and drew
          first     \* history: what the first plot_func call computed

vars == <<alpha, slider, calls, shown, first>>

---------------------------------------------------------------------------
(* Bounds of the model *)

\* plot_func runs at most MaxCalls times in a behaviour
MaxCalls == 5
\* rows of the 2D grid: the model's len(y) (the notebook's y has 100 samples)
NumY == 3

(* Program constants *)

\* alpha = 1.24, in hundredths
AlphaDefault == 124
\* d = 2.0
d == 2
\* np.linspace(-d, d, 100): samples per axis
num == 100
\* FloatSlider(min=0, max=3, step=0.1, value=0.5), in tenths
SliderMin == 0
SliderMax == 30
SliderValue == 5
\* math.pi, fixed-point
Pi == 3141592

(* Number representation *)

Scale == 10^6
Half == 10^3
AlphaDen == 10^2
RDen == 10^1
Unit == 2 * RDen * (num - 1)

\* other valid orbital exponents (0.50 and 2.00) the functions are checked for
Alphas == {50, 200}
\* an exponent outside the domain alpha > 0
InvalidAlphas == {0}

RValues == SliderMin..SliderMax

---------------------------------------------------------------------------
(* Float arithmetic *)

\* a * b of two fixed-point numbers: floor(a * b / Scale), by long
\* multiplication in base Half so that no partial product leaves 32 bits
MulFix(a, b) ==
    LET ah == a \div Half
        al == a % Half
        bh == b \div Half
        bl == b % Half
    IN  ah * bh + (ah * bl + al * bh + (al * bl) \div Half) \div Half

RECURSIVE LongDiv(_, _, _, _)
LongDiv(rem, b, digits, acc) ==
    IF digits = 0 THEN acc
    ELSE LongDiv((rem * 10) % b, b, digits - 1, acc * 10 + (rem * 10) \div b)

\* a / b of two fixed-point numbers, b # 0: floor(a * Scale / b)
DivFix(a, b) == LongDiv(a % b, b, 6, a \div b)

RECURSIVE ExpSeries(_, _, _, _)
ExpSeries(t, k, term, acc) ==
    IF term = 0 THEN acc
    ELSE LET nxt == MulFix(term, t) \div k
         IN  ExpSeries(t, k + 1, nxt, IF k % 2 = 1 THEN acc - nxt ELSE acc + nxt)

\* exp(-t) for a fixed-point t >= 0: halve the argument until the series
\* converges fast, then square back
RECURSIVE ExpCalc(_)
ExpCalc(t) ==
    IF 2 * t > Scale
    THEN LET h == ExpCalc(t \div 2) IN MulFix(h, h)
    ELSE ExpSeries(t, 1, Scale, Scale)

ExpStep == 10^3
ExpTableLen == 2^13

RECURSIVE ExpTableOf(_, _)
ExpTableOf(lo, hi) ==
    IF lo = hi THEN <<ExpCalc(lo * ExpStep)>>
    ELSE LET mid == (lo + hi) \div 2
         IN  ExpTableOf(lo, mid) \o ExpTableOf(mid + 1, hi)

\* exp(-q * ExpStep) for q = 1 .. ExpTableLen
ExpTable == ExpTableOf(1, ExpTableLen)

\* math.exp(-t) and np.exp(-t) for a fixed-point t >= 0
RECURSIVE ExpNeg(_)
ExpNeg(t) ==
    LET q == t \div ExpStep
        r == t % ExpStep
    IN  IF q = 0 THEN ExpSeries(t, 1, Scale, Scale)
        ELSE IF q <= ExpTableLen THEN MulFix(ExpTable[q], ExpSeries(r, 1, Scale, Scale))
        ELSE LET h == ExpNeg(t \div 2) IN MulFix(h, h)

RECURSIVE SqrtIter(_, _)
SqrtIter(n, g) ==
    LET h == (g + n \div g) \div 2
    IN  IF h >= g THEN g ELSE SqrtIter(n, h)

\* np.sqrt on grid units: floor(sqrt(n)), Newton's iteration from above
sqrt(n) ==
    IF n = 0 THEN 0
    ELSE SqrtIter(n, IF n < 2^14 THEN 2^7 ELSE IF n < 2^26 THEN 2^13 ELSE 2^16)

Abs(v) == IF v < 0 THEN -v ELSE v

\* np.linspace(lo, hi, n), 1-based
linspace(lo, hi, n) ==
    [i \in 1..n |-> lo + ((i - 1) * (hi - lo)) \div (n - 1)]

\* alpha * r for a distance r in grid units, as a fixed-point number
AlphaTimes(r) ==
    (alpha * r * (Scale \div (AlphaDen * RDen))) \div (Unit \div RDen)

---------------------------------------------------------------------------
(* The notebook's functions *)

\* def distance(x, y): return np.sqrt(x ** 2 + y ** 2)
distance(x, y) == sqrt(x * x + y * y)

\* S with the constant of the markdown cell, exp(-w) * (1 + w + (1/3)^2)
SMarkdown(R) ==
    LET w == alpha * R * (Scale \div (AlphaDen * RDen))
    IN  MulFix(ExpNeg(w), Scale + w + Scale \div 9)

\* S with w2 * 3 for w2 / 3
STimes3(R) ==
    LET w == alpha * R * (Scale \div (AlphaDen * RDen))
        w2 == MulFix(w, w)
    IN  MulFix(ExpNeg(w), Scale + w + w2 * 3)

\* def S(R): the overlap integral, reading the global alpha
S(R) ==
    LET w == alpha * R * (Scale \div (AlphaDen * RDen))
        w2 == MulFix(w, w)
    IN  MulFix(ExpNeg(w), Scale + w + w2 \div 3)

\* the nuclei put at -R and +R: the division by 2 forgotten
HalfRFull(R) == 2 * R * (num - 1)

\* R / 2 in grid units
HalfR(R) == R * (num - 1)

\* an x grid kept between calls and shifted in place by each of them
xsDrift == linspace(-d * Unit - calls, d * Unit - calls, num)

\* x = np.linspace(-d, d, 100)
xs == linspace(-d * Unit, d * Unit, num)
\* y = np.linspace(-d, d, 100), NumY samples in the model
ys == linspace(-d * Unit, d * Unit, NumY)

\* np.meshgrid(x, y, indexing='ij'): shape (len(x), len(y))
meshgridIJ(x, y) ==
    [X |-> [i \in 1..Len(x) |-> [j \in 1..Len(y) |-> x[i]]],
     Y |-> [i \in 1..Len(x) |-> [j \in 1..Len(y) |-> y[j]]]]

\* X, Y = np.meshgrid(x, y): the default indexing='xy', both of shape
\* (len(y), len(x)), X[i][j] = x[j] and Y[i][j] = y[i]
meshgrid(x, y) ==
    [X |-> [i \in 1..Len(y) |-> [j \in 1..Len(x) |-> x[j]]],
     Y |-> [i \in 1..Len(y) |-> [j \in 1..Len(x) |-> y[i]]]]

\* rb computed from the same nucleus as ra
rbSame(R, px, py) == distance(px - HalfR(R), py)

\* ra = distance(X - R / 2, Y), rb = distance(X + R / 2, Y)
ra(R, px, py) == distance(px - HalfR(R), py)
rb(R, px, py) == distance(px + HalfR(R), py)

\* the sum of the two atomic densities, exp(..) ** 2 + exp(..) ** 2
Amplitude2SumSq(R, px, py) ==
    LET a == ExpNeg(AlphaTimes(distance(px - HalfR(R), py)))
        b == ExpNeg(AlphaTimes(distance(px + HalfR(R), py)))
    IN  MulFix(a, a) + MulFix(b, b)

\* (np.exp(-alpha * ra) + np.exp(-alpha * rb)) ** 2 at one point
Amplitude2(R, px, py) ==
    LET a == ExpNeg(AlphaTimes(ra(R, px, py))) + ExpNeg(AlphaTimes(rb(R, px, py)))
    IN  MulFix(a, a)

\* alpha ** 3
AlphaCubed ==
    LET a == alpha * (Scale \div AlphaDen) IN MulFix(MulFix(a, a), a)

\* the antibonding orbital's normalisation, (1 - S(R))
NormAnti(R) == Scale - S(R)

\* (1 + S(R)), the divisor's second factor
Norm(R) == Scale + S(R)

\* math.pi * (1 + S(R))
Divisor(R) == MulFix(Pi, Norm(R))

\* alpha**3 / (math.pi * (1 + S(R))), a scalar
Prefactor(R) == DivFix(AlphaCubed, Divisor(R))

\* Z at one grid point:
\* (alpha**3 / (math.pi * (1 + S(R)))) * (np.exp(..) + np.exp(..)) ** 2
Z2D(R, px, py) == MulFix(Prefactor(R), Amplitude2(R, px, py))

\* density_1d at one sample: distance(x -/+ R / 2, 0), no prefactor
Density1D(R, px) == Amplitude2(R, px, 0)

\* no figure yet
NoFigure ==
    [title |-> -1, S |-> 0, Z |-> <<>>, density_1d |-> <<>>, raised |-> "none"]

\* def plot_func(R): what one call computes and draws.  A float division by
\* zero raises ZeroDivisionError at the line of Z, before anything is drawn.
plot_func(R) ==
    LET x == xs
        y == ys
        X == meshgrid(x, y).X
        Y == meshgrid(x, y).Y
        c == Prefactor(R)
    IN  IF Divisor(R) = 0
        THEN [NoFigure EXCEPT !.raised = "ZeroDivisionError"]
        ELSE [title |-> R,
              S |-> S(R),
              Z |-> [i \in DOMAIN X |-> [j \in DOMAIN X[i] |->
                        MulFix(c, Amplitude2(R, X[i][j], Y[i][j]))]],
              density_1d |-> [j \in DOMAIN x |-> Density1D(R, x[j])],
              raised |-> "none"]

---------------------------------------------------------------------------
(* interact(plot_func, R=FloatSlider(min=0, max=3, step=0.1, value=0.5)) *)

\* the observer handing on the value the slider had before the change
InteractArgStale(v) == slider

\* the value interact hands to plot_func when the slider moves to v
InteractArg(v) == v

InitCommon ==
    /\ slider = SliderValue
    /\ calls = 0
    /\ shown = NoFigure
    /\ first = NoFigure

\* the notebook as written: alpha = 1.24
Init == alpha = AlphaDefault /\ InitCommon

\* the functions for other valid exponents
InitAlpha == alpha \in Alphas /\ InitCommon

\* an exponent outside the domain
InitInvalid == alpha \in InvalidAlphas /\ InitCommon

\* interact draws once when it is created
Display ==
    /\ calls = 0
    /\ calls' = 1
    /\ shown' = plot_func(InteractArg(slider))
    /\ first' = shown'
    /\ UNCHANGED <<alpha, slider>>

\* the user moves the slider to another value: the observer calls plot_func
SliderChange(v) ==
    /\ calls >= 1
    /\ calls < MaxCalls
    /\ v # slider
    /\ slider' = v
    /\ calls' = calls + 1
    /\ shown' = plot_func(InteractArg(v))
    /\ UNCHANGED <<alpha, first>>

Next ==
    \/ Display
    \/ \E v \in RValues : SliderChange(v)

Spec == Init /\ [][Next]_vars
SpecAlpha == InitAlpha /\ [][Next]_vars
SpecInvalid == InitInvalid /\ [][Next]_vars

---------------------------------------------------------------------------
(* Properties *)

\* a figure is on display: plot_func ran and did not raise
Drawn == calls >= 1 /\ shown.raised = "none"

\* the grid step of x
Step == xs[2] - xs[1]

\* (2 * exp(-alpha * r)) ^ 2 for a distance r in grid units
Peak(r) == LET a == 2 * ExpNeg(AlphaTimes(r)) IN MulFix(a, a)

C3_MirrorSymmetry ==
    Drawn =>
        \A i \in 1..Len(ys), j \in 1..Len(xs) :
            /\ shown.Z[i][j] = Z2D(slider, -xs[j], ys[i])
            /\ shown.Z[i][j] = shown.Z[i][Len(xs) + 1 - j]

C3_Witness ==
    /\ Drawn /\ slider > 0
    /\ xs[1] = -xs[Len(xs)] /\ xs[1] # 0
    /\ shown.Z[1][1] = shown.Z[1][Len(xs)]
    /\ shown.Z[1][1] # shown.Z[1][2]

\* C4 as stated: Z has shape (len(x), len(y)), its first index running
\* over x and its second over y, so Z[i][j] is the value at (x[i], y[j]).
C4_ShapeXThenY ==
    Drawn =>
        \A i \in 1..Len(xs), j \in 1..Len(ys) :
            /\ i \in DOMAIN shown.Z
            /\ j \in DOMAIN shown.Z[i]
            /\ shown.Z[i][j] = Z2D(slider, xs[i], ys[j])

\* C4 amended: Z holds one value for every (x, y) pair of the grid and has
\* shape (len(y), len(x)): the first index runs over y and the second over
\* x, so Z[i][j] is the value at (x[j], y[i]).
C4_ShapeYThenX ==
    Drawn =>
        /\ Len(shown.Z) = Len(ys)
        /\ \A i \in 1..Len(ys) :
              /\ Len(shown.Z[i]) = Len(xs)
              /\ \A j \in 1..Len(xs) : shown.Z[i][j] = Z2D(slider, xs[j], ys[i])

C4_Witness ==
    /\ Drawn /\ calls >= 2
    /\ Len(shown.Z) = NumY /\ Len(shown.Z[1]) = num
    /\ shown.Z[2][1] = Z2D(slider, xs[1], ys[2])
    /\ shown.Z[2][1] # Z2D(slider, xs[2], ys[1])

\* C5 as stated: at R = 0 the 1D curve and the 2D field along y = 0 both
\* equal (2 * exp(-alpha * |x|)) ^ 2 at every sample x.
C5_PeakBoth ==
    (Drawn /\ slider = 0) =>
        \A j \in 1..Len(xs) :
            /\ shown.density_1d[j] = Peak(Abs(xs[j]))
            /\ Z2D(0, xs[j], 0) = Peak(Abs(xs[j]))
            /\ \A i \in 1..Len(ys) :
                  ys[i] = 0 => shown.Z[i][j] = Peak(Abs(xs[j]))

\* C5 amended: at R = 0 the 1D curve equals (2 * exp(-alpha * |x|)) ^ 2 at
\* every sample x; the 2D field is that single peak about the origin times
\* the prefactor alpha^3 / (pi * (1 + S(0))) = alpha^3 / (2 * pi): at (x, y)
\* it is alpha^3 / (2 * pi) * (2 * exp(-alpha * r)) ^ 2, r the distance of
\* (x, y) from the origin, which is |x| along y = 0.
C5_PeakScaledIn2D ==
    (Drawn /\ slider = 0) =>
        \A j \in 1..Len(xs) :
            /\ shown.density_1d[j] = Peak(Abs(xs[j]))
            /\ Z2D(0, xs[j], 0) = MulFix(DivFix(AlphaCubed, 2 * Pi), Peak(Abs(xs[j])))
            /\ \A i \in 1..Len(ys) :
                  shown.Z[i][j] =
                      MulFix(DivFix(AlphaCubed, 2 * Pi), Peak(distance(xs[j], ys[i])))

C5_Witness ==
    /\ Drawn /\ calls >= 2 /\ slider = 0
    /\ shown.density_1d[num \div 2] = Peak(Abs(xs[num \div 2]))
    /\ shown.density_1d[num \div 2] > shown.density_1d[1]
    /\ shown.Z[1][num \div 2] < Peak(distance(xs[num \div 2], ys[1]))

\* the nucleus at +R / 2, in grid units
NucleusAt(R) == (R * Unit) \div (2 * RDen)

\* the samples of x closest to the coordinate t
Closest(t) ==
    {j \in 1..Len(xs) : \A k \in 1..Len(xs) : Abs(xs[j] - t) <= Abs(xs[k] - t)}

LocalMax(s, j) ==
    /\ j = 1 \/ s[j] >= s[j - 1]
    /\ j = Len(s) \/ s[j] >= s[j + 1]

LocalMin(s, j) ==
    /\ j = 1 \/ s[j] <= s[j - 1]
    /\ j = Len(s) \/ s[j] <= s[j + 1]

Maxima(s) == {j \in 1..Len(s) : LocalMax(s, j)}

\* C6: for R > 0 every local maximum of the 1D density lies within one
\* grid step of a nucleus, x = -R/2 or x = +R/2, and each nucleus has one;
\* for alpha = 1.24 and R = 1.4 on linspace(-2, 2, 100) the curve has two
\* lobes: its local maxima are the two samples closest to x = -0.7 and
\* x = +0.7, and the samples closest to x = 0 are a local minimum strictly
\* below both maxima.
C6_TwoLobes ==
    (Drawn /\ slider > 0) =>
        LET s == shown.density_1d
            n == NucleusAt(slider)
        IN  /\ \A j \in Maxima(s) :
                  Abs(xs[j] - n) <= Step \/ Abs(xs[j] + n) <= Step
            /\ \E j \in Maxima(s) : Abs(xs[j] - n) <= Step
            /\ \E j \in Maxima(s) : Abs(xs[j] + n) <= Step
            /\ (slider = 14 /\ alpha = AlphaDefault) =>
                  /\ Maxima(s) = Closest(-n) \cup Closest(n)
                  /\ Cardinality(Maxima(s)) = 2
                  /\ \A c \in Closest(0) :
                        /\ LocalMin(s, c)
                        /\ \A m \in Maxima(s) : s[c] < s[m]

C6_Witness ==
    /\ Drawn /\ slider = 14 /\ alpha = AlphaDefault /\ Len(shown.density_1d) = 100
    /\ Cardinality(Maxima(shown.density_1d)) = 2
    /\ \E m \in Maxima(shown.density_1d) : xs[m] > 0 /\ xs[m] - NucleusAt(14) < Step
    /\ \E c \in Closest(0) : shown.density_1d[c] < shown.density_1d[1 + (2 * num) \div 3]

\* C7: every value of the 1D curve and of the 2D field is >= 0, and the
\* divisor's factor (1 + S(R)) is strictly positive for every R, so that
\* no call divides by zero.
C7_NonNegative ==
    /\ \A k \in RValues : Norm(k) > 0
    /\ calls >= 1 =>
          /\ shown.raised = "none"
          /\ \A i \in DOMAIN shown.Z : \A j \in DOMAIN shown.Z[i] : shown.Z[i][j] >= 0
          /\ \A j \in DOMAIN shown.density_1d : shown.density_1d[j] >= 0

C7_Witness ==
    /\ Drawn /\ slider = SliderMax /\ alpha \in Alphas
    /\ Norm(slider) > Scale /\ Divisor(slider) > Pi
    /\ shown.Z[1][1] > 0 /\ shown.density_1d[1] > 0

C9_InvalidAlphaRejected ==
    (alpha <= 0 /\ calls >= 1) =>
        /\ shown.raised = "InvalidParameter"
        /\ shown.Z = <<>>
        /\ shown.density_1d = <<>>

\* C10: the slider stays within [0, 3]; every change of R runs plot_func
\* once more; and the figure on display is the one computed for the
\* slider's current R, its 2D and 1D fields being exactly those of that R.
C10_DisplayFollowsSlider ==
    /\ [](/\ slider \in RValues
          /\ calls >= 1 => (shown.title = slider /\ shown = plot_func(slider)))
    /\ [][slider' # slider => calls' = calls + 1]_vars

C10_Witness ==
    /\ Drawn /\ calls >= 3 /\ slider # first.title
    /\ shown.title = slider /\ shown.density_1d # first.density_1d
    /\ shown.Z # first.Z

=============================================================================
